---------------------------- MODULE Spec2Model ----------------------------
(***************************************************************************)
(* A model of survpy's turf(data, columns, size, weights, min_response,    *)
(* forced_alt, mxclusive_alt, top) (src/turf.py).  One call is a pipeline:  *)
(* Validate -> Resolve -> Step (once per combination) -> Rank.              *)
(*                                                                         *)
(* Columns are numbered 1..5 and named "P".."T"; a label is the sequence   *)
(* of character codes of ", ".join(names).  An optional argument is <<>>   *)
(* (None) or <<v>>; a table cell is <<>> (NaN), <<0>> or <<1>>.            *)
(***************************************************************************)
EXTENDS Integers, Sequences, FiniteSets, TLC

VARIABLES data, columns, size, weights, min_response, forced_alt,
          mxclusive_alt, top,
          pc, err, filt_columns, updated_size, combi_iter, turf, scored,
          result

inputs == <<data, columns, size, weights, min_response, forced_alt,
            mxclusive_alt, top>>
vars == <<data, columns, size, weights, min_response, forced_alt,
          mxclusive_alt, top,
          pc, err, filt_columns, updated_size, combi_iter, turf, scored,
          result>>

-----------------------------------------------------------------------------
(* Bounds of the checked input space.                                       *)
NRows == 2
MaxSize == 5
MaxTop == 3
MaxMinResponse == 3

-----------------------------------------------------------------------------
(* Optional values and small helpers.                                       *)
None == <<>>
Some(v) == <<v>>
IsNone(x) == x = <<>>
Val(x) == x[1]

Range(s) == {s[i] : i \in 1..Len(s)}
Min(a, b) == IF a < b THEN a ELSE b

RECURSIVE SumSeq(_)
SumSeq(s) == IF s = <<>> THEN 0 ELSE Head(s) + SumSeq(Tail(s))

RECURSIVE Filter(_, _)
Filter(s, keep) ==
    IF s = <<>> THEN <<>>
    ELSE (IF Head(s) \in keep THEN <<Head(s)>> ELSE <<>>) \o Filter(Tail(s), keep)

-----------------------------------------------------------------------------
(* The table.  A table is a sequence of rows, a row maps each column of     *)
(* the table to a cell.                                                     *)
TableCols == {1, 2, 3, 4}
NaN == <<>>
Cells == {NaN, <<0>>, <<1>>}

(* weights=None gives every row weight 1 (turf.py:126-129); a list gives    *)
(* the row its own weight.                                                  *)
weight_col(i) == IF IsNone(weights) THEN 1 ELSE Val(weights)[i]

(* constructed_data[constructed_data[col]==1][weight_col].sum()             *)
PositiveSum(col) ==
    SumSeq([i \in 1..Len(data) |->
              IF data[i][col] = <<1>> THEN weight_col(i) ELSE 0])

(* RowMax with skipna=False: one NaN cell makes the row's maximum NaN.      *)
RECURSIVE RowMaxKeepNaN(_, _)
RowMaxKeepNaN(row, cols) ==
    IF cols = <<>> THEN NaN
    ELSE IF Len(cols) = 1 THEN row[Head(cols)]
    ELSE LET rest == RowMaxKeepNaN(row, Tail(cols))
             c == row[Head(cols)]
         IN  IF c = NaN \/ rest = NaN THEN NaN
             ELSE IF Val(c) >= Val(rest) THEN c ELSE rest

(* DataFrame.max(axis=1): NaN cells are skipped; a row with no value left   *)
(* (all NaN, or no column at all) gives NaN.                                *)
RECURSIVE RowMax(_, _)
RowMax(row, cols) ==
    IF cols = <<>> THEN NaN
    ELSE LET rest == RowMax(row, Tail(cols))
             c == row[Head(cols)]
         IN  IF c = NaN THEN rest
             ELSE IF rest = NaN THEN c
             ELSE IF Val(c) >= Val(rest) THEN c ELSE rest

(* DataFrame.sum(axis=1): NaN cells are skipped, the empty sum is 0.        *)
RECURSIVE RowSum(_, _)
RowSum(row, cols) ==
    IF cols = <<>> THEN 0
    ELSE (IF row[Head(cols)] = NaN THEN 0 ELSE Val(row[Head(cols)]))
         + RowSum(row, Tail(cols))

(* Series.sum(): NaN entries are skipped.                                   *)
RECURSIVE NanSum(_)
NanSum(s) ==
    IF s = <<>> THEN 0
    ELSE (IF Head(s) = NaN THEN 0 ELSE Val(Head(s))) + NanSum(Tail(s))

(* reach_scores = constructed_data[cols].max(axis=1) * weights              *)
reach_scores(cols) ==
    [i \in 1..Len(data) |->
       LET m == RowMax(data[i], cols)
       IN  IF m = NaN THEN NaN ELSE <<Val(m) * weight_col(i)>>]

(* freq_scores without the weights.                                         *)
freq_scores_unweighted(cols) ==
    [i \in 1..Len(data) |-> <<RowSum(data[i], cols)>>]

(* freq_scores = constructed_data[cols].sum(axis=1) * weights               *)
freq_scores(cols) ==
    [i \in 1..Len(data) |-> <<RowSum(data[i], cols) * weight_col(i)>>]

-----------------------------------------------------------------------------
(* Labels: ", ".join(cols) over the names "P".."T", as character codes.     *)
ColName(c) == <<79 + c>>

RECURSIVE Join(_)
Join(cols) ==
    IF cols = <<>> THEN <<>>
    ELSE IF Len(cols) = 1 THEN ColName(cols[1])
    ELSE ColName(cols[1]) \o <<44, 32>> \o Join(Tail(cols))

(* Python's str < str: the first differing character decides, a proper      *)
(* prefix is smaller.                                                       *)
RECURSIVE StrLess(_, _)
StrLess(a, b) ==
    IF b = <<>> THEN FALSE
    ELSE IF a = <<>> THEN TRUE
    ELSE IF Head(a) # Head(b) THEN Head(a) < Head(b)
    ELSE StrLess(Tail(a), Tail(b))

(* The scored entry [reach_scores.sum(), freq_scores.sum(), label].         *)
Entry(cols) == <<NanSum(reach_scores(cols)), NanSum(freq_scores(cols)), Join(cols)>>

(* Python's list < list on two entries.                                     *)
ListLess(a, b) ==
    IF a[1] # b[1] THEN a[1] < b[1]
    ELSE IF a[2] # b[2] THEN a[2] < b[2]
    ELSE StrLess(a[3], b[3])

-----------------------------------------------------------------------------
(* heapq on a list of entries.  Python positions are 0-based, the sequence  *)
(* is 1-based: position p is heap[p + 1].                                   *)
RECURSIVE siftdown(_, _, _, _)
siftdown(heap, startpos, pos, newitem) ==
    IF pos > startpos /\ ListLess(newitem, heap[((pos - 1) \div 2) + 1])
    THEN siftdown([heap EXCEPT ![pos + 1] = heap[((pos - 1) \div 2) + 1]],
                  startpos, (pos - 1) \div 2, newitem)
    ELSE [heap EXCEPT ![pos + 1] = newitem]

RECURSIVE siftup(_, _, _)
siftup(heap, pos, newitem) ==
    LET endpos == Len(heap)
        leftpos == 2 * pos + 1
        rightpos == leftpos + 1
        childpos == IF rightpos < endpos
                       /\ ~ListLess(heap[leftpos + 1], heap[rightpos + 1])
                    THEN rightpos ELSE leftpos
    IN  IF leftpos < endpos
        THEN siftup([heap EXCEPT ![pos + 1] = heap[childpos + 1]], childpos, newitem)
        ELSE siftdown([heap EXCEPT ![pos + 1] = newitem], 0, pos, newitem)

heappush(heap, item) == siftdown(Append(heap, item), 0, Len(heap), item)

(* heappushpop as heapreplace: the item always replaces the root.           *)
heappushpop_always(heap, item) ==
    IF heap # <<>>
    THEN siftup([heap EXCEPT ![1] = item], 0, item)
    ELSE heap

(* heappushpop: the item replaces the root only if the root is smaller.     *)
heappushpop(heap, item) ==
    IF heap # <<>> /\ ListLess(heap[1], item)
    THEN siftup([heap EXCEPT ![1] = item], 0, item)
    ELSE heap

-----------------------------------------------------------------------------
(* combinations that stops one element short of the end of the pool.       *)
RECURSIVE combinations_short(_, _)
combinations_short(pool, r) ==
    IF r = 0 THEN << <<>> >>
    ELSE IF Len(pool) <= r THEN <<>>
    ELSE LET with == combinations_short(Tail(pool), r - 1)
         IN  [i \in 1..Len(with) |-> <<Head(pool)>> \o with[i]]
             \o combinations_short(Tail(pool), r)

(* itertools.combinations(pool, r), in its order of generation.             *)
RECURSIVE combinations(_, _)
combinations(pool, r) ==
    IF r = 0 THEN << <<>> >>
    ELSE IF Len(pool) < r THEN <<>>
    ELSE LET with == combinations(Tail(pool), r - 1)
         IN  [i \in 1..Len(with) |-> <<Head(pool)>> \o with[i]]
             \o combinations(Tail(pool), r)

(* DataFrame.sort_values(by=["Reach", "Frequency"], ascending=False): a     *)
(* stable sort, rows of equal keys keep their order.                        *)
(* The sort key without Frequency.                                          *)
KeyGreaterReachOnly(a, b) == a[1] > b[1]

KeyGreater(a, b) == a[1] > b[1] \/ (a[1] = b[1] /\ a[2] > b[2])

RECURSIVE InsertDesc(_, _)
InsertDesc(e, s) ==
    IF s = <<>> THEN <<e>>
    ELSE IF KeyGreater(Head(s), e) THEN <<Head(s)>> \o InsertDesc(e, Tail(s))
    ELSE <<e>> \o s

RECURSIVE sort_values(_)
sort_values(s) ==
    IF s = <<>> THEN <<>> ELSE InsertDesc(Head(s), sort_values(Tail(s)))

-----------------------------------------------------------------------------
(* The validation checks of turf.py:134-147, in order; <<>> when all pass.  *)
(* The arguments modelled are of the documented types, so the isinstance    *)
(* checks of lines 110-123 pass.                                            *)
ValidationError ==
    IF ~(Range(columns) \subseteq TableCols)
    THEN Some("columns is not subset of data")
    ELSE IF ~IsNone(forced_alt) /\ ~(Range(Val(forced_alt)) \subseteq TableCols)
    THEN Some("forced_alt is not subset in data")
    ELSE IF ~IsNone(mxclusive_alt) /\ ~(Range(Val(mxclusive_alt)) \subseteq TableCols)
    THEN Some("mxclusive_alt is not subset in data")
    ELSE IF ~IsNone(forced_alt) /\ ~IsNone(mxclusive_alt)
            /\ Range(Val(forced_alt)) \cap Range(Val(mxclusive_alt)) # {}
    THEN Some("mxclusive_alt should not have common elements in forced_alt")
    ELSE IF size > Len(columns)
    THEN Some("size should be lesser than the total number of columns")
    ELSE IF ~IsNone(forced_alt)
            /\ (Len(Val(forced_alt)) > Len(columns) \/ Len(Val(forced_alt)) > size)
    THEN Some("Number of forced_alt should be lesser than size and the total number of columns")
    ELSE None

(* The pool with the filter made strict: a column whose sum equals          *)
(* min_response is dropped too.                                             *)
EligiblePoolStrict ==
    LET kept == IF IsNone(min_response) THEN columns
                ELSE Filter(columns,
                            {c \in Range(columns) : PositiveSum(c) > Val(min_response)})
    IN  IF IsNone(forced_alt) THEN kept
        ELSE Filter(kept, Range(kept) \ Range(Val(forced_alt)))

(* The pool without the min_response filter.                                *)
EligiblePoolNoFilter ==
    IF IsNone(forced_alt) THEN columns
    ELSE Filter(columns, Range(columns) \ Range(Val(forced_alt)))

(* turf.py:150-155, the pool the combinations are drawn from.               *)
EligiblePool ==
    LET kept == IF IsNone(min_response) THEN columns
                ELSE Filter(columns,
                            {c \in Range(columns) : PositiveSum(c) >= Val(min_response)})
    IN  IF IsNone(forced_alt) THEN kept
        ELSE Filter(kept, Range(kept) \ Range(Val(forced_alt)))

(* turf.py:151,156, the number of columns drawn per combination.            *)
EnumerationSize ==
    IF IsNone(forced_alt) THEN size ELSE size - Len(Val(forced_alt))

(* The full combination with the forced columns first.                      *)
ColsForcedFirst(combi) == IF IsNone(forced_alt) THEN combi ELSE Val(forced_alt) \o combi

(* turf.py:161-163, the full combination.                                   *)
Cols(combi) == IF IsNone(forced_alt) THEN combi ELSE combi \o Val(forced_alt)

(* The exclusivity test off by one.                                         *)
ExcludedMoreThanTwo(cols) ==
    ~IsNone(mxclusive_alt)
    /\ Cardinality(Range(cols) \cap Range(Val(mxclusive_alt))) > 2

(* turf.py:164 *)
Excluded(cols) ==
    ~IsNone(mxclusive_alt)
    /\ Cardinality(Range(cols) \cap Range(Val(mxclusive_alt))) > 1

-----------------------------------------------------------------------------
(* The call.                                                                *)
Validate ==
    /\ pc = "validate"
    /\ IF IsNone(ValidationError)
       THEN pc' = "resolve" /\ err' = err
       ELSE pc' = "error" /\ err' = Val(ValidationError)
    /\ UNCHANGED <<inputs, filt_columns, updated_size, combi_iter, turf, scored, result>>

(* turf.py:149-159.  combinations() raises ValueError for a negative r.     *)
Resolve ==
    /\ pc = "resolve"
    /\ filt_columns' = EligiblePool
    /\ updated_size' = EnumerationSize
    /\ IF EnumerationSize < 0
       THEN /\ pc' = "error"
            /\ err' = "r must be non-negative"
            /\ combi_iter' = combi_iter
       ELSE /\ pc' = "enumerate"
            /\ err' = err
            /\ combi_iter' = combinations(EligiblePool, EnumerationSize)
    /\ UNCHANGED <<inputs, turf, scored, result>>

(* turf.py:160-174, one pass of the loop body.  Selecting a column that     *)
(* line 149 dropped from constructed_data raises KeyError.                  *)
Step ==
    /\ pc = "enumerate"
    /\ combi_iter # <<>>
    /\ LET cols == Cols(Head(combi_iter))
       IN  IF Excluded(cols)
           THEN UNCHANGED <<pc, err, turf, scored>>
           ELSE IF ~(Range(cols) \subseteq Range(columns))
           THEN pc' = "error" /\ err' = "KeyError" /\ UNCHANGED <<turf, scored>>
           ELSE /\ scored' = Append(scored, Entry(cols))
                /\ turf' = IF IsNone(top) THEN Append(turf, Entry(cols))
                           ELSE IF Len(turf) < Val(top) THEN heappush(turf, Entry(cols))
                           ELSE heappushpop(turf, Entry(cols))
                /\ UNCHANGED <<pc, err>>
    /\ combi_iter' = Tail(combi_iter)
    /\ UNCHANGED <<inputs, filt_columns, updated_size, result>>

(* turf.py:175-176 *)
Rank ==
    /\ pc = "enumerate"
    /\ combi_iter = <<>>
    /\ result' = Some(sort_values(turf))
    /\ pc' = "done"
    /\ UNCHANGED <<inputs, err, filt_columns, updated_size, combi_iter, turf, scored>>

Next == Validate \/ Resolve \/ Step \/ Rank

-----------------------------------------------------------------------------
(* The calls checked.                                                       *)
Start ==
    /\ pc = "validate"
    /\ err = ""
    /\ filt_columns = <<>>
    /\ updated_size = 0
    /\ combi_iter = <<>>
    /\ turf = <<>>
    /\ scored = <<>>
    /\ result = None

(* Scenario A of the specification (columns P, Q, R) with a fourth column   *)
(* S, and a table with missing values and tied columns.                     *)
ScenarioA ==
    << << <<1>>, <<0>>, <<1>>, NaN >>,
       << <<0>>, <<1>>, <<1>>, <<1>> >>,
       << <<1>>, <<0>>, <<0>>, <<1>> >>,
       << <<0>>, <<1>>, <<0>>, NaN >>,
       << <<0>>, <<0>>, <<0>>, <<0>> >> >>

TiesTable ==
    << << <<1>>, <<1>>, NaN,   <<0>> >>,
       << <<1>>, <<1>>, <<0>>, <<1>> >>,
       << NaN,   <<0>>, <<1>>, <<1>> >>,
       << <<0>>, NaN,   <<1>>, NaN >> >>

Tables == {ScenarioA, TiesTable}
WeightLists(n) == {[i \in 1..n |-> i % 3]}
ColumnLists == {<<1, 2, 3>>, <<3, 1, 2, 4>>, <<2, 4, 1, 3>>, <<1, 5>>}
Sizes == -1..MaxSize
MinResponses == {None} \cup {Some(m) : m \in 2..MaxMinResponse}
ForcedLists ==
    {None, Some(<<>>), Some(<<1>>), Some(<<4>>), Some(<<2, 1>>), Some(<<3, 4>>), Some(<<5>>)}
ExclusiveLists ==
    {None, Some(<<2, 3>>), Some(<<1, 2, 3>>), Some(<<3, 4>>), Some(<<1, 4>>), Some(<<5, 1>>)}
Tops == {None} \cup {Some(t) : t \in -1..MaxTop}

Init ==
    /\ data \in Tables
    /\ weights \in {None} \cup {Some(w) : w \in WeightLists(Len(data))}
    /\ columns \in ColumnLists
    /\ size \in Sizes
    /\ min_response \in MinResponses
    /\ forced_alt \in ForcedLists
    /\ mxclusive_alt \in ExclusiveLists
    /\ top \in Tops
    /\ Start

Spec == Init /\ [][Next]_vars

(* Every table of NRows rows over the columns P, Q, R, each row weighted 1  *)
(* or 2 (or weights=None).  No result depends on the order of the rows      *)
(* (every score is a sum over them), so the rows are taken in one order.    *)
RowWeights == {1, 2}
CellCode(c) == IF c = NaN THEN 0 ELSE Val(c) + 1
RowCode(row, w) == ((CellCode(row[1]) * 3 + CellCode(row[2])) * 3 + CellCode(row[3])) * 3 + w
ScoreTables ==
    {d \in [1..NRows -> {<<p, q, r, <<0>> >> : p \in Cells, q \in Cells, r \in Cells}] : TRUE}

InitData ==
    /\ data \in ScoreTables
    /\ weights \in {None} \cup {Some(w) : w \in [1..NRows -> RowWeights]}
    /\ \A i \in 1..(NRows - 1) :
          RowCode(data[i], weight_col(i)) <= RowCode(data[i + 1], weight_col(i + 1))
    /\ columns = <<1, 2, 3>>
    /\ size \in 1..3
    /\ min_response = None
    /\ forced_alt \in {None, Some(<<2>>)}
    /\ mxclusive_alt = None
    /\ top = None
    /\ Start

SpecData == InitData /\ [][Next]_vars

-----------------------------------------------------------------------------
(* What the claims speak of, stated on the inputs and the returned table    *)
(* alone.                                                                   *)
Returned == pc = "done"
Rows == Val(result)

(* The columns a label names: every name is one character, two characters   *)
(* separate two names.                                                      *)
ColsOf(label) == [k \in 1..((Len(label) + 2) \div 3) |-> label[3 * k - 2] - 79]

Positive(i, c) == data[i][c] = <<1>>

(* The weight of the respondents marked positive on at least one column.    *)
ReachOf(S) ==
    SumSeq([i \in 1..Len(data) |->
              IF \E c \in S : Positive(i, c) THEN weight_col(i) ELSE 0])

(* The weight of the respondents marked positive on column c.               *)
PositiveWeight(c) ==
    SumSeq([i \in 1..Len(data) |-> IF Positive(i, c) THEN weight_col(i) ELSE 0])

FrequencyOf(cols) == SumSeq([k \in 1..Len(cols) |-> PositiveWeight(cols[k])])

ForcedSet == IF IsNone(forced_alt) THEN {} ELSE Range(Val(forced_alt))
ExclusiveSet == IF IsNone(mxclusive_alt) THEN {} ELSE Range(Val(mxclusive_alt))

(* The subsets of the eligible pool of the enumeration size, and those of   *)
(* them that mxclusive_alt lets through.                                    *)
PoolSubsets == {S \in SUBSET Range(filt_columns) : Cardinality(S) = updated_size}
ValidSubsets ==
    {S \in PoolSubsets : Cardinality((S \cup ForcedSet) \cap ExclusiveSet) <= 1}

RowSets == {Range(ColsOf(Rows[k][3])) : k \in 1..Len(Rows)}

(* C1: every returned row's Reach is the weight of the respondents marked   *)
(* positive on at least one of its columns, each counted once, and its      *)
(* Frequency is the sum over its columns of the weight of the respondents   *)
(* marked positive on that column; a missing value counts as not positive.  *)
C1_ReachFrequency ==
    Returned =>
        \A k \in 1..Len(Rows) :
            LET cols == ColsOf(Rows[k][3])
            IN  /\ Rows[k][1] = ReachOf(Range(cols))
                /\ Rows[k][2] = FrequencyOf(cols)

(* A returned combination with a missing value in one of its columns, a     *)
(* respondent positive on two of them and a weight other than 1.            *)
C1_Witness ==
    /\ Returned
    /\ \E k \in 1..Len(Rows) :
          LET S == Range(ColsOf(Rows[k][3]))
          IN  /\ \E i \in 1..Len(data) : \E c \in S : data[i][c] = NaN
              /\ \E i \in 1..Len(data) :
                    /\ weight_col(i) > 1
                    /\ Cardinality({c \in S : Positive(i, c)}) > 1
              /\ Rows[k][1] > 0

(* C7: for every returned combination with size >= 1, Reach <= Frequency,   *)
(* and Reach = Frequency when size is 1.                                    *)
C7_ReachAtMostFrequency ==
    (Returned /\ size >= 1) =>
        \A k \in 1..Len(Rows) :
            /\ Rows[k][1] <= Rows[k][2]
            /\ size = 1 => Rows[k][1] = Rows[k][2]

(* A call of size 1 with a positive reach, and a call of a larger size      *)
(* whose frequency exceeds its reach.                                       *)
C7_WitnessEqual ==
    Returned /\ size = 1 /\ \E k \in 1..Len(Rows) : Rows[k][1] > 0

C7_Witness ==
    Returned /\ size > 1 /\ \E k \in 1..Len(Rows) : 0 < Rows[k][1] /\ Rows[k][1] < Rows[k][2]

(* The (reach, frequency) pair of a set of columns, and its order.          *)
PairOf(S) == <<ReachOf(S), SumSeq([i \in 1..Len(data) |->
                   weight_col(i) * Cardinality({c \in S : Positive(i, c)})])>>
PairGreater(a, b) == a[1] > b[1] \/ (a[1] = b[1] /\ a[2] > b[2])

TopCount == top # None /\ Val(top) >= 0

(* The smallest entry of a list under the (reach, frequency, label) order.  *)
Weakest(list) == CHOOSE e \in Range(list) : \A f \in Range(list) : ~ListLess(f, e)

(* C2, the table: with top set, the returned table has min(top, number of   *)
(* valid combinations) rows, and no valid combination left out has a        *)
(* (reach, frequency) pair strictly greater than that of any returned row.  *)
C2_Selected ==
    (Returned /\ TopCount) =>
        /\ Len(Rows) = Min(Val(top), Cardinality(ValidSubsets))
        /\ \A S \in ValidSubsets :
              (S \cup ForcedSet) \notin RowSets =>
                  \A k \in 1..Len(Rows) :
                      ~PairGreater(PairOf(S \cup ForcedSet), <<Rows[k][1], Rows[k][2]>>)

(* C2, the step: a newly scored combination changes a full collection only  *)
(* by taking the place of its weakest member, and only when it is strictly  *)
(* greater than that member under the (reach, frequency, label) order.      *)
C2_Displaces ==
    (TopCount /\ Len(turf) = Val(top) /\ turf' # turf) =>
        /\ turf # <<>>
        /\ Len(scored') = Len(scored) + 1
        /\ LET new == scored'[Len(scored')]
           IN  /\ ListLess(Weakest(turf), new)
               /\ Range(turf') = (Range(turf) \ {Weakest(turf)}) \cup {new}
               /\ Len(turf') = Len(turf)

(* C2: when top is set, the result has min(top, number of valid            *)
(* combinations) rows, no valid combination left out beats the weakest      *)
(* returned pair, and a new combination displaces the weakest retained one  *)
(* only when strictly greater under the (reach, frequency, label) order.    *)
C2_TopSelection == [][C2_Selected' /\ C2_Displaces]_vars

(* A call with top set in which one scored combination took the place of    *)
(* another and one was turned away.                                         *)
C2_Witness ==
    /\ Returned /\ TopCount
    /\ Len(scored) > Val(top) + 1
    /\ \E k \in (Val(top) + 1)..Len(scored) : scored[k] \in Range(turf)
    /\ \E k \in (Val(top) + 1)..Len(scored) :
          scored[k] \notin Range(turf) /\ \A j \in 1..(k - 1) : scored[j] # scored[k]

(* C3: with top not set, the result has one row for every combination of    *)
(* the enumeration size from the eligible pool that mxclusive_alt does not  *)
(* exclude, and each such subset of the pool is scored exactly once.        *)
C3_Complete ==
    (Returned /\ top = None) =>
        /\ Len(Rows) = Cardinality(PoolSubsets) - Cardinality(PoolSubsets \ ValidSubsets)
        /\ RowSets = {S \cup ForcedSet : S \in ValidSubsets}
        /\ Cardinality(RowSets) = Len(Rows)
        /\ Len(scored) = Len(Rows)
        /\ updated_size = size - Cardinality(ForcedSet)

(* A call without top where mxclusive_alt excludes some combinations and    *)
(* lets others through, with a forced column.                               *)
C3_Witness ==
    /\ Returned /\ top = None
    /\ ForcedSet # {}
    /\ PoolSubsets \ ValidSubsets # {}
    /\ Len(Rows) > 1

(* C4: the returned table is non-increasing in Reach, and among rows of     *)
(* equal Reach non-increasing in Frequency, with or without top.            *)
C4_Sorted ==
    Returned =>
        \A k \in 1..(Len(Rows) - 1) :
            /\ Rows[k][1] >= Rows[k + 1][1]
            /\ Rows[k][1] = Rows[k + 1][1] => Rows[k][2] >= Rows[k + 1][2]

(* A returned table that the final sort had to reorder, with two rows of    *)
(* equal Reach and different Frequency.                                     *)
C4_Witness ==
    /\ Returned
    /\ Rows # turf
    /\ \E k \in 1..(Len(Rows) - 1) :
          Rows[k][1] = Rows[k + 1][1] /\ Rows[k][2] > Rows[k + 1][2]

(* C5: every returned combination consists of exactly size distinct         *)
(* columns and contains every column of forced_alt, placed last in its      *)
(* label.                                                                   *)
C5_SizeAndForced ==
    Returned =>
        \A k \in 1..Len(Rows) :
            LET cols == ColsOf(Rows[k][3])
            IN  /\ Len(cols) = size
                /\ Cardinality(Range(cols)) = size
                /\ Rows[k][3] = Join(cols)
                /\ forced_alt # None =>
                      /\ Len(Val(forced_alt)) <= Len(cols)
                      /\ SubSeq(cols, Len(cols) - Len(Val(forced_alt)) + 1, Len(cols))
                           = Val(forced_alt)

(* A returned table of several combinations, each with two forced columns.  *)
C5_Witness ==
    /\ Returned
    /\ forced_alt # None /\ Len(Val(forced_alt)) = 2
    /\ Len(Rows) > 1

(* C6, the table: no entry kept or returned has more than one column of     *)
(* mxclusive_alt.                                                           *)
C6_NoneKept ==
    /\ \A k \in 1..Len(turf) :
          Cardinality(Range(ColsOf(turf[k][3])) \cap ExclusiveSet) <= 1
    /\ Returned =>
          \A k \in 1..Len(Rows) :
              Cardinality(Range(ColsOf(Rows[k][3])) \cap ExclusiveSet) <= 1

(* C6, the step: a combination with two or more columns of mxclusive_alt    *)
(* is passed over: no error, nothing scored, the collection unchanged.      *)
C6_Dropped ==
    (/\ pc = "enumerate" /\ combi_iter # <<>>
     /\ Cardinality((Range(Head(combi_iter)) \cup ForcedSet) \cap ExclusiveSet) > 1) =>
        /\ pc' = "enumerate" /\ err' = err
        /\ turf' = turf /\ scored' = scored
        /\ combi_iter' = Tail(combi_iter)

(* C6: no returned combination contains more than one column of             *)
(* mxclusive_alt; one with two or more is dropped without an error and      *)
(* without affecting the other combinations.                                *)
C6_Exclusive == [][C6_NoneKept' /\ C6_Dropped]_vars

(* A returned, non-empty table of a call in which a combination with two    *)
(* columns of mxclusive_alt was dropped.                                    *)
C6_Witness ==
    /\ Returned
    /\ Len(Rows) > 0
    /\ \E S \in PoolSubsets : Cardinality((S \cup ForcedSet) \cap ExclusiveSet) > 1

-----------------------------------------------------------------------------
(* The errors validation raises (turf.py:134-147).                          *)
ValidationErrors ==
    {"columns is not subset of data",
     "forced_alt is not subset in data",
     "mxclusive_alt is not subset in data",
     "mxclusive_alt should not have common elements in forced_alt",
     "size should be lesser than the total number of columns",
     "Number of forced_alt should be lesser than size and the total number of columns"}

Finished == pc \in {"done", "error"}

(* The call failed in validation: nothing was scored, no table returned.    *)
RejectedByValidation ==
    /\ pc = "error" /\ err \in ValidationErrors
    /\ scored = <<>> /\ turf = <<>>
    /\ result = None

(* The call failed, whatever raised the error, with nothing scored and no   *)
(* table returned.                                                          *)
FailedUnscored ==
    /\ pc = "error"
    /\ scored = <<>> /\ turf = <<>>
    /\ result = None

SizeValid == size >= 1 /\ size <= Len(columns)
TopValid == top = None \/ Val(top) >= 1
SubsetsValid == ForcedSet \subseteq Range(columns) /\ ExclusiveSet \subseteq Range(columns)

(* C8: a call whose size is not a positive integer <= |columns| (its other  *)
(* arguments valid) fails before any combination is enumerated or scored    *)
(* and returns no table.  The error is allowed to come from anywhere, so    *)
(* that the ValueError itertools.combinations raises for a negative size    *)
(* counts for the claim: what is left is the call that ends with a table.   *)
C8_SizeRejected ==
    (Finished /\ ~SizeValid /\ TopValid /\ SubsetsValid) => FailedUnscored

(* C9: a call whose top is present and not a positive integer (its other    *)
(* arguments valid) fails with an error raised by validation, before any    *)
(* combination is enumerated or scored, and returns no table.               *)
C9_TopRejected ==
    (Finished /\ ~TopValid /\ SizeValid /\ SubsetsValid) => RejectedByValidation

(* C10: a call whose forced_alt or mxclusive_alt has a column that is not   *)
(* in columns (its other arguments valid) is rejected by validation, before *)
(* enumeration starts: no combination is scored and no table is returned.   *)
C10_SubsetRejected ==
    (Finished /\ ~SubsetsValid /\ SizeValid /\ TopValid) => RejectedByValidation

-----------------------------------------------------------------------------
(* The eligible pool and the enumeration size, read off the arguments: the  *)
(* columns whose weighted positive sum is not below min_response, the       *)
(* forced ones taken out; size less the number of forced columns.           *)
MeetsMinResponse(c) ==
    min_response = None \/ (c \in TableCols /\ PositiveWeight(c) >= Val(min_response))
EligibleColumns == {c \in Range(columns) : MeetsMinResponse(c)} \ ForcedSet
DrawnPerCombination == size - (IF forced_alt = None THEN 0 ELSE Len(Val(forced_alt)))
Candidates == {S \in SUBSET EligibleColumns : Cardinality(S) = DrawnPerCombination}

PoolTooSmall == Cardinality(EligibleColumns) < DrawnPerCombination
AllExcluded ==
    /\ DrawnPerCombination >= 0
    /\ \A S \in Candidates : Cardinality((S \cup ForcedSet) \cap ExclusiveSet) > 1

PassedValidation == pc # "validate" /\ err \notin ValidationErrors

(* C11: when the eligible pool has fewer columns than the enumeration size, *)
(* or every combination is excluded by mxclusive_alt, a call that passed    *)
(* validation scores no combination, raises no error and returns an empty   *)
(* table.                                                                   *)
C11_EmptyNotError ==
    (PassedValidation /\ (PoolTooSmall \/ AllExcluded)) =>
        /\ pc # "error" /\ err = ""
        /\ scored = <<>> /\ turf = <<>>
        /\ Returned => Rows = <<>>
        /\ (pc = "enumerate" /\ combi_iter = <<>>) => ENABLED Rank

(* Scenario B: min_response removed every column, the call returned an      *)
(* empty table.                                                             *)
C11_Witness ==
    /\ Returned /\ Rows = <<>>
    /\ min_response # None /\ columns # <<>> /\ EligibleColumns = {}
    /\ PoolTooSmall /\ size >= 1

(* The other case: combinations were enumerated and mxclusive_alt excluded  *)
(* every one of them.                                                       *)
C11_WitnessExcluded ==
    /\ Returned /\ Rows = <<>>
    /\ Candidates # {} /\ AllExcluded /\ ~PoolTooSmall

(* C12: with min_response set, a column outside forced_alt is in a         *)
(* returned combination only if its weighted positive sum is not below      *)
(* min_response, a column whose sum equals min_response stays eligible      *)
(* (without top, every combination of the eligible columns that             *)
(* mxclusive_alt lets through is returned), and every column of forced_alt  *)
(* is in every returned combination whatever its sum.                       *)
C12_MinResponse ==
    (Returned /\ min_response # None) =>
        /\ \A k \in 1..Len(Rows) :
              LET S == Range(ColsOf(Rows[k][3]))
              IN  /\ \A c \in S \ ForcedSet : PositiveWeight(c) >= Val(min_response)
                  /\ ForcedSet \subseteq S
        /\ Range(filt_columns) = EligibleColumns
        /\ top = None =>
              RowSets = {S \cup ForcedSet :
                           S \in {T \in Candidates :
                                    Cardinality((T \cup ForcedSet) \cap ExclusiveSet) <= 1}}

(* A returned table in which a forced column below min_response is in       *)
(* every row, a column whose sum equals min_response is in some row, and a  *)
(* column outside forced_alt was dropped for a sum below min_response.      *)
C12_Witness ==
    /\ Returned /\ min_response # None
    /\ Len(Rows) > 0
    /\ \E c \in ForcedSet : PositiveWeight(c) < Val(min_response)
    /\ \E c \in Range(columns) \ ForcedSet : PositiveWeight(c) < Val(min_response)
    /\ \E k \in 1..Len(Rows) :
          \E c \in Range(ColsOf(Rows[k][3])) \ ForcedSet :
              PositiveWeight(c) = Val(min_response)

=============================================================================
